---- MODULE Spec2Model ----
(***************************************************************************)
(* Model of the N5 Japanese flashcard application (App component, QuizCard *)
(* and the mnemonic service): the progress record, the discovered pools,   *)
(* the quiz session and the asynchronous work (delayed advance, hint       *)
(* request) that outlives the handler that started it.                     *)
(*                                                                         *)
(* Every user event is one action: React flushes the state updates of a    *)
(* discrete event and re-renders before the next event is delivered, so a  *)
(* handler always sees the values of the latest render.  Closures that run *)
(* later (setTimeout, the continuation after await) keep the values of the *)
(* render that created them; those captured values are stored in `timers`  *)
(* and `hints`.                                                            *)
(***************************************************************************)
EXTENDS Integers, Sequences, FiniteSets, TLC

\* ------------------------------------------------------------------ bounds
\* Lengths of the four catalogs (./constants is external, ordered data).
HiraganaLen == 11
KatakanaLen == 10
KanjiLen == 1
VocabularyLen == 1
\* Cap on the mistakes recorded for one item, and on the answers given for
\* all items but the most practised one.
MaxWeak == 3
MaxSecondary == 0
\* Cap on successCounts in the progress records explored for the classifier.
MaxCount == 9

\* --------------------------------------------------------------- constants
MASTERY_THRESHOLD == 3
\* successCounts is explored up to the mastery threshold.
MaxSuccess == MASTERY_THRESHOLD
PROFICIENCY_INTERMEDIATE == 5
PROFICIENCY_ADVANCED == 8
INITIAL_INTRO_COUNT == 10
SINGLE_COUNT == 10
GENERAL_COUNT == 20
MAX_WRONG_OPTIONS == 3

\* A nullable value is <<>> (null) or <<v>>.
Null == <<>>
Some(v) == <<v>>
Undefined == <<"undefined">>

Categories == <<"hiragana", "katakana", "kanji", "vocabulary">>
CategorySet == {"hiragana", "katakana", "kanji", "vocabulary"}

VARIABLES
    catalogs,             \* HIRAGANA, KATAKANA, KANJI_N5, VOCABULARY_N5
    view,
    activeType,
    quiz,
    progress,
    mnemonic,
    isProcessing,
    unlockNotification,
    globalError,
    hasKey,
    prevDiscoveredCounts,
    unlockedSets,         \* the memoised discovered pools
    timers,               \* pending setTimeout(() => nextQuestion(), 800)
    hints,                \* pending getMnemonicForChar requests
    alertMsg,             \* the alert() dialog being shown, if any
    reachedThreshold,     \* history: ids whose successCounts has been >= 3
    reported              \* history: items shown as "just unlocked"

vars == <<catalogs, view, activeType, quiz, progress, mnemonic, isProcessing,
          unlockNotification, globalError, hasKey, prevDiscoveredCounts,
          unlockedSets, timers, hints, alertMsg, reachedThreshold, reported>>

\* ----------------------------------------------------------------- helpers
Min(a, b) == IF a < b THEN a ELSE b

Max(a, b) == IF a > b THEN a ELSE b

Range(s) == {s[i] : i \in 1..Len(s)}

\* Array.prototype.includes
Includes(s, x) == \E i \in 1..Len(s) : s[i] = x

\* s with its i-th element removed
RemoveAt(s, i) == SubSeq(s, 1, i - 1) \o SubSeq(s, i + 1, Len(s))

\* ---------------------------------------------------------------- catalogs
\* A JapaneseChar object is represented by its id, the stable unique key of
\* the catalog entry; its other fields are functions of the id.  A string
\* is a tagged tuple: <<"r", i>> is the i-th romaji, <<"m", i>> the i-th
\* meaning.  As in the real data the katakana share their romaji with the
\* hiragana, and a vocabulary entry may share its meaning with a kanji.
HIRAGANA == [i \in 1..HiraganaLen |-> 100 + i]

KATAKANA == [i \in 1..KatakanaLen |-> 200 + i]

KANJI_N5 == [i \in 1..KanjiLen |-> 300 + i]

VOCABULARY_N5 == [i \in 1..VocabularyLen |-> 400 + i]

TypeOf(c) ==
    IF c < 200 THEN "hiragana"
    ELSE IF c < 300 THEN "katakana"
    ELSE IF c < 400 THEN "kanji"
    ELSE "vocabulary"

RomajiOf(c) ==
    IF c < 200 THEN <<"r", c - 100>>
    ELSE IF c < 300 THEN <<"r", c - 200>>
    ELSE <<"r", c>>

MeaningOf(c) ==
    IF c < 300 THEN Undefined
    ELSE IF c < 400 THEN <<"m", c - 300>>
    ELSE <<"m", KanjiLen + c - 401>>

InitialCatalogs ==
    [hiragana |-> HIRAGANA, katakana |-> KATAKANA,
     kanji |-> KANJI_N5, vocabulary |-> VOCABULARY_N5]

AllIds == Range(HIRAGANA) \cup Range(KATAKANA) \cup Range(KANJI_N5) \cup Range(VOCABULARY_N5)

\* ------------------------------------------------------- discovery engine
\* record[key] || 0
CountOf(rec, id) == IF id \in DOMAIN rec THEN rec[id] ELSE 0

\* Mutant: every mastered id counts, whatever its category.
getDiscoveredPoolAnyCategory(fullPool, prog) ==
    LET allowedCount == INITIAL_INTRO_COUNT + Len(prog.masteredIds)
    IN  SubSeq(fullPool, 1, Min(allowedCount, Len(fullPool)))

\* Mutant: the pool holds the items still to be mastered.
getDiscoveredPoolUnmastered(fullPool, prog) ==
    LET categoryMasteredCount ==
            Len(SelectSeq(fullPool, LAMBDA c : Includes(prog.masteredIds, c)))
        allowedCount == INITIAL_INTRO_COUNT + categoryMasteredCount
    IN  SelectSeq(SubSeq(fullPool, 1, Min(allowedCount, Len(fullPool))),
                  LAMBDA c : ~Includes(prog.masteredIds, c))

getDiscoveredPool(fullPool, prog) ==
    LET categoryMasteredCount ==
            Len(SelectSeq(fullPool, LAMBDA c : Includes(prog.masteredIds, c)))
        allowedCount == INITIAL_INTRO_COUNT + categoryMasteredCount
    IN  SubSeq(fullPool, 1, Min(allowedCount, Len(fullPool)))

ComputeUnlockedSets(cats, prog) ==
    [hiragana |-> getDiscoveredPool(cats.hiragana, prog),
     katakana |-> getDiscoveredPool(cats.katakana, prog),
     kanji |-> getDiscoveredPool(cats.kanji, prog),
     vocabulary |-> getDiscoveredPool(cats.vocabulary, prog)]

combinedDiscoveredPool(sets) ==
    sets.hiragana \o sets.katakana \o sets.kanji \o sets.vocabulary

\* ------------------------------------------------------------ random sort
\* Array.prototype.sort(() => Math.random() - 0.5): some permutation of the
\* array.  The outcomes explored are the array as it is and its rotation by
\* one place.
SortRandom(s, r) ==
    IF Len(s) = 0 THEN s
    ELSE LET k == r % Len(s)
         IN  SubSeq(s, k + 1, Len(s)) \o SubSeq(s, 1, k)

Shifts == {0, 1}

\* ---------------------------------------------------------------- initial
EmptyQuiz ==
    [isActive |-> FALSE, currentIndex |-> 0, score |-> 0,
     questions |-> <<>>, mistakes |-> <<>>]

EmptyMap == [id \in {} |-> 0]

EmptyProgress ==
    [masteredIds |-> <<>>, weakIds |-> EmptyMap, successCounts |-> EmptyMap]

InitialCounts ==
    [c \in CategorySet |-> INITIAL_INTRO_COUNT]

\* ------------------------------------------------- unlock notification
\* The effect on [unlockedSets, view]: state after the first k categories
\* of the loop, as [counts, notification].
RECURSIVE UnlockLoop(_, _, _, _)
UnlockLoop(k, sets, counts, notification) ==
    IF k = 0 THEN [counts |-> counts, notification |-> notification]
    ELSE LET before == UnlockLoop(k - 1, sets, counts, notification)
             cat == Categories[k]
             pool == sets[cat]
         IN  [counts |-> [before.counts EXCEPT ![cat] = Len(pool)],
              notification |->
                  IF Len(pool) > before.counts[cat]
                  THEN Some(pool[Len(pool)])
                  ELSE before.notification]

UnlockEffect(newView, sets, counts, notification) ==
    IF newView # "home"
    THEN [counts |-> counts, notification |-> notification]
    ELSE UnlockLoop(Len(Categories), sets, counts, notification)

\* The item that a run of the effect puts on display, if it calls
\* setUnlockNotification at all
Notified(newView, sets, counts, notification) ==
    IF newView = "home" /\ \E cat \in CategorySet : Len(sets[cat]) > counts[cat]
    THEN {notification[1]}
    ELSE {}

\* The effect as the last step of an action that ends in newView, newSets.
RunUnlockEffect(newView, newSets) ==
    LET after == UnlockEffect(newView, newSets, prevDiscoveredCounts,
                              unlockNotification)
    IN  /\ prevDiscoveredCounts' = after.counts
        /\ unlockNotification' = after.notification
        /\ reported' = reported \cup
               Notified(newView, newSets, prevDiscoveredCounts, after.notification)

Init ==
    /\ catalogs = InitialCatalogs
    /\ view = "home"
    /\ activeType = "hiragana"
    /\ quiz = EmptyQuiz
    /\ progress = EmptyProgress
    /\ mnemonic = Null
    /\ isProcessing = FALSE
    /\ globalError = Null
    /\ hasKey = TRUE
    /\ unlockedSets = ComputeUnlockedSets(InitialCatalogs, EmptyProgress)
    /\ LET mounted == UnlockEffect("home",
                           ComputeUnlockedSets(InitialCatalogs, EmptyProgress),
                           InitialCounts, Null)
       IN  /\ prevDiscoveredCounts = mounted.counts
           /\ unlockNotification = mounted.notification
    /\ timers = <<>>
    /\ hints = <<>>
    /\ alertMsg = Null
    /\ reachedThreshold = {}
    /\ reported = {}


\* ---------------------------------------------------------- session builder
\* Mutant: the memoised pool of a category is sorted in place (no copy).
PoolsAfterSortInPlace(sets, type, reviewMistakes, sorted) ==
    IF type # "general" /\ ~reviewMistakes
    THEN [sets EXCEPT ![type] = sorted]
    ELSE sets

\* The array that startQuiz sorts is its own copy ([...pool] or the result
\* of filter), so the memoised pools are what they were.
PoolsAfterSort(sets, type, reviewMistakes, sorted) == sets

startQuizPool(type, reviewMistakes, sets, prog) ==
    LET sessionPool == IF type = "general"
                       THEN combinedDiscoveredPool(sets)
                       ELSE sets[type]
    IN  IF reviewMistakes
        THEN SelectSeq(sessionPool, LAMBDA c : CountOf(prog.weakIds, c) # 0)
        ELSE sessionPool

\* Mutant: the session length of a single category is used for every target.
startQuizCountSingle(type) == SINGLE_COUNT

startQuizCount(type) == IF type = "general" THEN GENERAL_COUNT ELSE SINGLE_COUNT

Slice(s, count) == SubSeq(s, 1, Min(count, Len(s)))

\* Mutant: the empty review pool is not detected.
NoMistakesTrackedNever(reviewMistakes, sessionPool) == FALSE

NoMistakesTracked(reviewMistakes, sessionPool) ==
    reviewMistakes /\ Len(sessionPool) = 0

startQuiz(type, reviewMistakes, r) ==
    LET sessionPool == startQuizPool(type, reviewMistakes, unlockedSets, progress)
        sorted == SortRandom(sessionPool, r)
        shuffled == Slice(sorted, startQuizCount(type))
    IN  IF NoMistakesTracked(reviewMistakes, sessionPool)
        THEN /\ alertMsg' = Some("No mistakes tracked in your active discovery set yet!")
             /\ UNCHANGED <<catalogs, view, activeType, quiz, progress, mnemonic,
                            isProcessing, unlockNotification, globalError, hasKey,
                            prevDiscoveredCounts, unlockedSets, timers, hints,
                            reachedThreshold,
                       reported>>
        ELSE /\ quiz' = [isActive |-> TRUE, currentIndex |-> 0, score |-> 0,
                         questions |-> shuffled, mistakes |-> <<>>]
             /\ activeType' = type
             /\ view' = "quiz"
             /\ mnemonic' = Null
             /\ unlockedSets' = PoolsAfterSort(unlockedSets, type, reviewMistakes, sorted)
             /\ RunUnlockEffect("quiz", unlockedSets')
             /\ UNCHANGED <<catalogs, progress, isProcessing, globalError, hasKey,
                            timers, hints, reachedThreshold>>
             /\ alertMsg' = Null

\* HomeView: "Start Review" and the four "Practice" buttons; the review flag
\* is the second parameter of startQuiz.
StartQuiz ==
    /\ view = "home"
    /\ \E type \in CategorySet \cup {"general"}, reviewMistakes \in BOOLEAN, r \in Shifts :
           startQuiz(type, reviewMistakes, r)

\* ReviewView: "Retry"
Retry ==
    /\ view = "review"
    /\ \E r \in Shifts : startQuiz(activeType, FALSE, r)

\* ---------------------------------------------------------- answer evaluator
HasCurrentQuestion == quiz.currentIndex < Len(quiz.questions)

currentQuestion == quiz.questions[quiz.currentIndex + 1]

isMeaningQuestion(c) == TypeOf(c) = "kanji" \/ TypeOf(c) = "vocabulary"

\* Mutant: the romaji is the expected answer of every item.
correctAnswerOfRomaji(c) == RomajiOf(c)

correctAnswerOf(c) == IF isMeaningQuestion(c) THEN MeaningOf(c) ELSE RomajiOf(c)

\* QuizCard: the test that colours the selected option green or red
optionIsCorrect(character, opt) ==
    opt = (IF TypeOf(character) = "kanji" \/ TypeOf(character) = "vocabulary"
           THEN MeaningOf(character)
           ELSE RomajiOf(character))

\* Mutant: the filter keeps a value equal to the correct answer.
RECURSIVE DistinctKeepingCorrect(_, _)
DistinctKeepingCorrect(a, correctAnswer) ==
    IF Len(a) = 0 THEN <<>>
    ELSE LET front == SubSeq(a, 1, Len(a) - 1)
             v == a[Len(a)]
         IN  IF Includes(front, v)
             THEN DistinctKeepingCorrect(front, correctAnswer)
             ELSE Append(DistinctKeepingCorrect(front, correctAnswer), v)

\* filter((v, i, a) => a.indexOf(v) === i && v !== correctAnswer)
RECURSIVE Distinct(_, _)
Distinct(a, correctAnswer) ==
    IF Len(a) = 0 THEN <<>>
    ELSE LET front == SubSeq(a, 1, Len(a) - 1)
             v == a[Len(a)]
         IN  IF Includes(front, v) \/ v = correctAnswer
             THEN Distinct(front, correctAnswer)
             ELSE Append(Distinct(front, correctAnswer), v)

options(c, cats, r1, r2) ==
    LET correctAnswer == correctAnswerOf(c)
        pool == IF isMeaningQuestion(c)
                THEN cats.kanji \o cats.vocabulary
                ELSE cats.hiragana \o cats.katakana
        others == SelectSeq(pool, LAMBDA x : x # c)
        keys == [i \in 1..Len(others) |-> correctAnswerOf(others[i])]
        wrongOptions == Slice(SortRandom(Distinct(keys, correctAnswer), r1),
                              MAX_WRONG_OPTIONS)
    IN  SortRandom(<<correctAnswer>> \o wrongOptions, r2)

SetKey(rec, id, v) == [k \in DOMAIN rec \cup {id} |-> IF k = id THEN v ELSE rec[k]]

\* Mutant: the membership test is dropped.
MasteredAfterPushAlways(masteredIds, id, newCount) ==
    IF newCount >= MASTERY_THRESHOLD
    THEN Append(masteredIds, id)
    ELSE masteredIds

\* Mutant: mastery needs more than the threshold.
MasteredAfterStrict(masteredIds, id, newCount) ==
    IF newCount > MASTERY_THRESHOLD /\ ~Includes(masteredIds, id)
    THEN Append(masteredIds, id)
    ELSE masteredIds

MasteredAfter(masteredIds, id, newCount) ==
    IF newCount >= MASTERY_THRESHOLD /\ ~Includes(masteredIds, id)
    THEN Append(masteredIds, id)
    ELSE masteredIds

CorrectProgress(prev, id) ==
    LET newSuccess == SetKey(prev.successCounts, id, CountOf(prev.successCounts, id) + 1)
    IN  [prev EXCEPT !.successCounts = newSuccess,
                     !.masteredIds = MasteredAfter(prev.masteredIds, id, newSuccess[id])]

\* Mutant: a mistake demotes an item whose counter falls below the threshold.
IncorrectProgressDemoting(prev, id) ==
    LET newSuccess == SetKey(prev.successCounts, id,
                             Max(0, CountOf(prev.successCounts, id) - 1))
    IN  [prev EXCEPT !.weakIds = SetKey(prev.weakIds, id, CountOf(prev.weakIds, id) + 1),
                     !.successCounts = newSuccess,
                     !.masteredIds =
                         IF newSuccess[id] < MASTERY_THRESHOLD
                         THEN SelectSeq(prev.masteredIds, LAMBDA m : m # id)
                         ELSE prev.masteredIds]

\* Mutant: the mistake count is set, not incremented.
IncorrectProgressWeakSet(prev, id) ==
    [prev EXCEPT !.weakIds = SetKey(prev.weakIds, id, 1),
                 !.successCounts =
                     SetKey(prev.successCounts, id,
                            Max(0, CountOf(prev.successCounts, id) - 1))]

\* Mutant: the decrement is not clamped at 0.
IncorrectProgressNoClamp(prev, id) ==
    [prev EXCEPT !.weakIds = SetKey(prev.weakIds, id, CountOf(prev.weakIds, id) + 1),
                 !.successCounts =
                     SetKey(prev.successCounts, id,
                            CountOf(prev.successCounts, id) - 1)]

IncorrectProgress(prev, id) ==
    [prev EXCEPT !.weakIds = SetKey(prev.weakIds, id, CountOf(prev.weakIds, id) + 1),
                 !.successCounts =
                     SetKey(prev.successCounts, id,
                            Max(0, CountOf(prev.successCounts, id) - 1))]

ThresholdReached(prog) ==
    {id \in DOMAIN prog.successCounts : prog.successCounts[id] >= MASTERY_THRESHOLD}

\* The bound on the learner's answers: successCounts[id] + 2 * weakIds[id]
\* grows with every answer for id; all items but one stay within
\* MaxSecondary.
Load(prog, id) == CountOf(prog.successCounts, id) + 2 * CountOf(prog.weakIds, id)

RECURSIVE TotalLoad(_, _)
TotalLoad(prog, ids) ==
    IF ids = {} THEN 0
    ELSE LET id == CHOOSE x \in ids : TRUE
         IN  Load(prog, id) + TotalLoad(prog, ids \ {id})

Touched(prog) == DOMAIN prog.successCounts \cup DOMAIN prog.weakIds

WithinBounds(prog) ==
    /\ \A id \in DOMAIN prog.successCounts : prog.successCounts[id] <= MaxSuccess
    /\ \A id \in DOMAIN prog.weakIds : prog.weakIds[id] <= MaxWeak
    /\ \E p \in Touched(prog) :
           TotalLoad(prog, Touched(prog)) - Load(prog, p) <= MaxSecondary

handleAnswer(answer) ==
    LET c == currentQuestion
        isCorrect == answer = correctAnswerOf(c)
    IN  /\ isProcessing' = TRUE
        /\ IF isCorrect
           THEN /\ WithinBounds(CorrectProgress(progress, c))
                /\ quiz' = [quiz EXCEPT !.score = @ + 1]
                /\ progress' = CorrectProgress(progress, c)
                /\ unlockedSets' = ComputeUnlockedSets(catalogs, progress')
                /\ timers' = Append(timers, [currentIndex |-> quiz.currentIndex,
                                             length |-> Len(quiz.questions)])
                /\ hints' = hints
           ELSE /\ WithinBounds(IncorrectProgress(progress, c))
                /\ quiz' = [quiz EXCEPT !.mistakes = Append(@, c)]
                /\ progress' = IncorrectProgress(progress, c)
                /\ unlockedSets' = unlockedSets
                /\ hints' = Append(hints, c)
                /\ timers' = timers
        /\ reachedThreshold' = reachedThreshold \cup ThresholdReached(progress')
        /\ RunUnlockEffect(view, unlockedSets')
        /\ UNCHANGED <<catalogs, view, activeType, mnemonic, globalError, hasKey>>
        /\ alertMsg' = Null

\* The option strings some render of the question can show
RenderedOptions(c, cats) ==
    UNION {Range(options(c, cats, r1, r2)) : r1 \in Shifts, r2 \in Shifts}

\* The options are a function of the question alone (useMemo on
\* [currentQuestion], over the imported catalogs): tabulated once.
OptionTable == [c \in AllIds |-> RenderedOptions(c, InitialCatalogs)]

\* Mutant: the card does not look at the processing flag.
HandleSelectWhileProcessing ==
    /\ view = "quiz"
    /\ HasCurrentQuestion
    /\ \E answer \in RenderedOptions(currentQuestion, catalogs) : handleAnswer(answer)

\* QuizCard.handleSelect on one of the rendered options
HandleSelect ==
    /\ view = "quiz"
    /\ HasCurrentQuestion
    /\ ~isProcessing
    /\ \E answer \in OptionTable[currentQuestion] : handleAnswer(answer)


\* -------------------------------------------------------------- advancing
\* nextQuestion as created by the render whose quiz had the given
\* currentIndex and questions.length
nextQuestion(currentIndex, length) ==
    /\ mnemonic' = Null
    /\ isProcessing' = FALSE
    /\ IF currentIndex < length - 1
       THEN /\ quiz' = [quiz EXCEPT !.currentIndex = @ + 1]
            /\ view' = view
       ELSE /\ view' = "review"
            /\ quiz' = quiz
    /\ RunUnlockEffect(view', unlockedSets)
    /\ UNCHANGED <<catalogs, activeType, progress, globalError, hasKey,
                   unlockedSets, hints, reachedThreshold>>
    /\ alertMsg' = Null

\* The "Next Question" button, rendered with the hint
NextQuestionClick ==
    /\ view = "quiz"
    /\ HasCurrentQuestion
    /\ mnemonic # Null
    /\ nextQuestion(quiz.currentIndex, Len(quiz.questions))
    /\ timers' = timers

\* The timeout set by a correct answer expires
TimerFire ==
    \E i \in 1..Len(timers) :
        /\ nextQuestion(timers[i].currentIndex, timers[i].length)
        /\ timers' = RemoveAt(timers, i)

\* ------------------------------------------------------------ hint request
ServiceOutcomes == {"json", "emptyText", "invalidJson", "authError", "otherError"}

\* The promise of getMnemonicForChar: every failure is caught and logged
\* inside the function, which then resolves to null.
getMnemonicForChar(char, outcome) ==
    IF outcome = "json"
    THEN [threw |-> FALSE, value |-> Some([character |-> char]), message |-> ""]
    ELSE [threw |-> FALSE, value |-> Null, message |-> ""]

\* Mutant: a request that brings no hint undoes the mistake it was made for.
HintResolveWithRollback(i, outcome) ==
    LET result == getMnemonicForChar(hints[i], outcome)
    IN  /\ hints' = RemoveAt(hints, i)
        /\ IF result.value # Null
           THEN /\ mnemonic' = result.value
                /\ isProcessing' = isProcessing
                /\ progress' = progress
           ELSE /\ mnemonic' = mnemonic
                /\ isProcessing' = FALSE
                /\ progress' = [progress EXCEPT !.weakIds =
                                    SetKey(progress.weakIds, hints[i],
                                           CountOf(progress.weakIds, hints[i]) - 1)]
        /\ UNCHANGED <<catalogs, view, activeType, quiz, hasKey, globalError,
                       unlockNotification, prevDiscoveredCounts, unlockedSets,
                       timers, reachedThreshold, reported>>
        /\ alertMsg' = Null

\* The continuation of handleAnswer after await, for the i-th pending
\* request and one outcome of the service
HintResolveWith(i, outcome) ==
    LET result == getMnemonicForChar(hints[i], outcome)
    IN  /\ hints' = RemoveAt(hints, i)
        /\ IF ~result.threw
           THEN /\ IF result.value # Null
                   THEN /\ mnemonic' = result.value
                        /\ isProcessing' = isProcessing
                   ELSE /\ mnemonic' = mnemonic
                        /\ isProcessing' = FALSE
                /\ UNCHANGED <<hasKey, globalError>>
           ELSE /\ IF result.message = "Requested entity was not found"
                   THEN /\ hasKey' = FALSE
                        /\ globalError' = Some("Please select a valid paid API key.")
                   ELSE /\ hasKey' = hasKey
                        /\ globalError' = Some("Could not fetch mnemonic tip.")
                /\ isProcessing' = FALSE
                /\ mnemonic' = mnemonic
        /\ UNCHANGED <<catalogs, view, activeType, quiz, progress,
                       unlockNotification, prevDiscoveredCounts, unlockedSets,
                       timers, reachedThreshold,
                       reported>>
        /\ alertMsg' = Null

HintResolve ==
    \E i \in 1..Len(hints), outcome \in ServiceOutcomes : HintResolveWith(i, outcome)

\* -------------------------------------------------------------- classifier
\* Mutant: the status follows the counter.
getStatusByCount(charId) ==
    LET success == CountOf(progress.successCounts, charId)
    IN  IF success >= MASTERY_THRESHOLD THEN "Completed"
        ELSE IF success > 0 THEN "In progress"
        ELSE "Not started"

getStatus(charId) ==
    LET success == CountOf(progress.successCounts, charId)
    IN  IF Includes(progress.masteredIds, charId) THEN "Completed"
        ELSE IF success > 0 THEN "In progress"
        ELSE "Not started"

\* Mutant: a mastered item is never below Beginner.
getProficiencyOfMastered(charId) ==
    LET success == CountOf(progress.successCounts, charId)
    IN  IF success >= PROFICIENCY_ADVANCED THEN "Advanced"
        ELSE IF success >= PROFICIENCY_INTERMEDIATE THEN "Intermediate"
        ELSE IF success > 0 \/ Includes(progress.masteredIds, charId) THEN "Beginner"
        ELSE "None"

getProficiency(charId) ==
    LET success == CountOf(progress.successCounts, charId)
    IN  IF success >= PROFICIENCY_ADVANCED THEN "Advanced"
        ELSE IF success >= PROFICIENCY_INTERMEDIATE THEN "Intermediate"
        ELSE IF success > 0 THEN "Beginner"
        ELSE "None"

\* -------------------------------------------------------------- navigation
resetToHome ==
    /\ view' = "home"
    /\ quiz' = EmptyQuiz
    /\ RunUnlockEffect("home", unlockedSets)
    /\ UNCHANGED <<catalogs, activeType, progress, mnemonic, isProcessing,
                   globalError, hasKey, unlockedSets, timers, hints,
                   reachedThreshold>>
    /\ alertMsg' = Null

\* HomeView: "View Proficiency" (the grammar lessons, the vocabulary list
\* and their search state are outside the model)
SetView ==
    /\ view = "home"
    /\ \E v \in {"progress-overview"} :
           /\ view' = v
           /\ RunUnlockEffect(v, unlockedSets)
    /\ UNCHANGED <<catalogs, activeType, quiz, progress, mnemonic, isProcessing,
                   globalError, hasKey, unlockedSets, timers, hints,
                   reachedThreshold>>
    /\ alertMsg' = Null

\* The dismiss button of the notification, or its 5 s timeout
ClearUnlockNotification ==
    /\ unlockNotification # Null
    /\ unlockNotification' = Null
    /\ UNCHANGED <<catalogs, view, activeType, quiz, progress, mnemonic,
                   isProcessing, globalError, hasKey, prevDiscoveredCounts,
                   unlockedSets, timers, hints, reachedThreshold,
                       reported>>
    /\ alertMsg' = Null

\* The page is loaded again: every useState/useRef starts from its initial
\* value, progress from the record saved in localStorage; the timeouts and
\* requests of the page that was left are gone.
Reload ==
    /\ view' = "home"
    /\ activeType' = "hiragana"
    /\ quiz' = EmptyQuiz
    /\ progress' = progress
    /\ mnemonic' = Null
    /\ isProcessing' = FALSE
    /\ globalError' = Null
    /\ hasKey' = TRUE
    /\ unlockedSets' = ComputeUnlockedSets(catalogs, progress)
    /\ LET mounted == UnlockEffect("home", unlockedSets', InitialCounts, Null)
       IN  /\ prevDiscoveredCounts' = mounted.counts
           /\ unlockNotification' = mounted.notification
           /\ reported' = reported \cup
                  Notified("home", unlockedSets', InitialCounts, mounted.notification)
    /\ timers' = <<>>
    /\ hints' = <<>>
    /\ alertMsg' = Null
    /\ UNCHANGED <<catalogs, reachedThreshold>>

Next ==
    \/ StartQuiz
    \/ Retry
    \/ HandleSelect
    \/ NextQuestionClick
    \/ TimerFire
    \/ HintResolve
    \/ resetToHome
    \/ SetView
    \/ ClearUnlockNotification
    \/ Reload

Spec == Init /\ [][Next]_vars


\* ------------------------------------------------ progress records at large
\* The progress records that long practice produces, for the classifier:
\* each step is one practice round seen from the home view (a session on
\* the item, one answer, the advance or the empty hint, the return to the
\* home view), that is the update of handleAnswer followed by the
\* recomputation of the pools and the unlock effect.
PractisedIds == {HIRAGANA[1], KANJI_N5[1]}

PractiseRound(after) ==
    /\ \A id \in DOMAIN after.successCounts : after.successCounts[id] <= MaxCount
    /\ \A id \in DOMAIN after.weakIds : after.weakIds[id] <= MaxWeak
    /\ progress' = after
    /\ unlockedSets' = ComputeUnlockedSets(catalogs, after)
    /\ reachedThreshold' = reachedThreshold \cup ThresholdReached(after)
    /\ RunUnlockEffect("home", unlockedSets')
    /\ UNCHANGED <<catalogs, view, activeType, quiz, mnemonic, isProcessing,
                   globalError, hasKey, timers, hints>>
    /\ alertMsg' = Null

PractiseCorrect == \E id \in PractisedIds : PractiseRound(CorrectProgress(progress, id))

PractiseIncorrect == \E id \in PractisedIds : PractiseRound(IncorrectProgress(progress, id))

ClassifierNext ==
    \/ PractiseCorrect
    \/ PractiseIncorrect

ClassifierSpec == Init /\ [][ClassifierNext]_vars


\* ================================================================ claims
MasteredSet(prog) == Range(prog.masteredIds)

\* A step of handleAnswer with the correct answer (the only step that
\* schedules a delayed advance) / with an incorrect answer (the only step
\* that requests a hint)
CorrectAnswerStep == Len(timers') = Len(timers) + 1

IncorrectAnswerStep == Len(hints') = Len(hints) + 1

\* The counters of every item but id are what they were
OthersUnchanged(id) ==
    /\ DOMAIN progress'.successCounts \ {id} = DOMAIN progress.successCounts \ {id}
    /\ DOMAIN progress'.weakIds \ {id} = DOMAIN progress.weakIds \ {id}
    /\ \A o \in DOMAIN progress.successCounts \ {id} :
           progress'.successCounts[o] = progress.successCounts[o]
    /\ \A o \in DOMAIN progress.weakIds \ {id} :
           progress'.weakIds[o] = progress.weakIds[o]

\* C1: mastery is permanent: an id that is in masteredIds is in masteredIds
\* after every step (answers of either kind, session starts, exits, advances,
\* hint outcomes).
C1_MasteryPermanent ==
    [][MasteredSet(progress) \subseteq MasteredSet(progress')]_vars

\* C1 witness: a mastered item whose success counter was driven back to 0
C1_Witness ==
    \E id \in MasteredSet(progress) :
        /\ id \in DOMAIN progress.successCounts
        /\ progress.successCounts[id] = 0

\* C2: a correct answer for id adds exactly 1 to successCounts[id] (0 if
\* absent), appends id to masteredIds exactly when the new count is >= 3 and
\* id is not yet a member, never creates a duplicate, adds exactly 1 to the
\* score and leaves weakIds, mistakes and the other items' counters alone.
C2_CorrectAnswer ==
    [][CorrectAnswerStep =>
        LET id == currentQuestion
            newCount == CountOf(progress.successCounts, id) + 1
        IN  /\ id \in DOMAIN progress'.successCounts
            /\ progress'.successCounts[id] = newCount
            /\ progress'.masteredIds =
                   IF newCount >= 3 /\ id \notin MasteredSet(progress)
                   THEN Append(progress.masteredIds, id)
                   ELSE progress.masteredIds
            /\ Cardinality(MasteredSet(progress')) = Len(progress'.masteredIds)
            /\ quiz'.score = quiz.score + 1
            /\ progress'.weakIds = progress.weakIds
            /\ quiz'.mistakes = quiz.mistakes
            /\ OthersUnchanged(id)]_vars

\* C2 witness: a correct answer has just been given for an item that was
\* mastered before it and brought back to 3 after three mistakes
C2_Witness ==
    /\ view = "quiz" /\ HasCurrentQuestion /\ Len(timers) = 1
    /\ quiz.score >= 1
    /\ currentQuestion \in MasteredSet(progress)
    /\ CountOf(progress.successCounts, currentQuestion) = 3
    /\ CountOf(progress.weakIds, currentQuestion) = 3

Prefix(full, n) == [i \in 1..n |-> full[i]]

\* The number of entries of a catalog whose id is mastered
MasteredIn(full, prog) ==
    Cardinality({i \in 1..Len(full) : full[i] \in MasteredSet(prog)})

\* C4: for every category the discovered pool is the first
\* min(10 + m, catalogLength) entries of the catalog, in catalog order, m
\* being the number of mastered entries of that catalog; the catalogs are
\* never reordered.
C4_DiscoveredPool ==
    /\ catalogs = InitialCatalogs
    /\ \A cat \in CategorySet :
           LET full == InitialCatalogs[cat]
               m == MasteredIn(full, progress)
               n == IF 10 + m < Len(full) THEN 10 + m ELSE Len(full)
           IN  unlockedSets[cat] = Prefix(full, n)

\* C4 witness: a session of 10 questions built from the 11 discovered
\* hiragana, in an order that is not the pool's
C4_Witness ==
    /\ view = "quiz" /\ activeType = "hiragana"
    /\ Len(unlockedSets.hiragana) = 11
    /\ Len(quiz.questions) = 10
    /\ quiz.questions[1] # unlockedSets.hiragana[1]

PoolRange ==
    \A cat \in CategorySet :
        LET catalogLength == Len(InitialCatalogs[cat])
        IN  /\ Len(unlockedSets[cat]) >= (IF 10 < catalogLength THEN 10 ELSE catalogLength)
            /\ Len(unlockedSets[cat]) <= catalogLength

PoolGrowth ==
    /\ \A cat \in CategorySet : Len(unlockedSets'[cat]) >= Len(unlockedSets[cat])
    /\ \A id \in MasteredSet(progress') \ MasteredSet(progress) :
           \A cat \in CategorySet :
               Len(unlockedSets'[cat]) =
                   IF cat = TypeOf(id) /\ Len(unlockedSets[cat]) < Len(InitialCatalogs[cat])
                   THEN Len(unlockedSets[cat]) + 1
                   ELSE Len(unlockedSets[cat])

\* C5: the length of every discovered pool never decreases and stays within
\* [min(10, catalogLength), catalogLength]; a new mastery in a category that
\* is not fully unlocked adds exactly 1 to that category's pool and leaves
\* the other pools alone.
C5_PoolLength == []PoolRange /\ [][PoolGrowth]_vars

\* C5 witness: three correct answers in a row for one hiragana, from the
\* empty record: the hiragana pool went from 10 to 11
C5_Witness ==
    /\ Len(progress.masteredIds) = 1
    /\ TypeOf(progress.masteredIds[1]) = "hiragana"
    /\ progress.successCounts[progress.masteredIds[1]] = 3
    /\ DOMAIN progress.weakIds = {}
    /\ Len(unlockedSets.hiragana) = 11

\* C6: an id is in masteredIds exactly when its successCounts has been >= 3
\* at some point; in particular successCounts[id] >= 3 implies mastery.
C6_MasteredIffReached ==
    /\ MasteredSet(progress) = reachedThreshold
    /\ \A id \in DOMAIN progress.successCounts :
           progress.successCounts[id] >= 3 => id \in MasteredSet(progress)

\* C6 witness: a mastered item whose counter is now below the threshold
C6_Witness ==
    \E id \in MasteredSet(progress) : CountOf(progress.successCounts, id) < 3

\* C7: successCounts[id] >= 0 for every id, and every key of weakIds has a
\* count >= 1.
C7_CountersNonNegative ==
    /\ \A id \in DOMAIN progress.successCounts : progress.successCounts[id] >= 0
    /\ \A id \in DOMAIN progress.weakIds : progress.weakIds[id] >= 1

\* C7 witness: an item never mastered, with two mistakes and a counter of 0:
\* one of the mistakes found the counter at 0
C7_Witness ==
    \E id \in DOMAIN progress.weakIds :
        /\ progress.weakIds[id] >= 2
        /\ progress.successCounts[id] = 0
        /\ id \notin reachedThreshold


Targets == CategorySet \cup {"general"}

\* The candidate pool of a target: the concatenation of the four discovered
\* pools for 'general', the category's discovered pool otherwise
CandidatePool(target) ==
    IF target = "general"
    THEN unlockedSets.hiragana \o unlockedSets.katakana
             \o unlockedSets.kanji \o unlockedSets.vocabulary
    ELSE unlockedSets[target]

\* Its items that have an entry in weakIds
WeakCandidates(target) ==
    {c \in Range(CandidatePool(target)) : c \in DOMAIN progress.weakIds}

Limit(target) == IF target = "general" THEN 20 ELSE 10

\* A step that builds a session for activeType'
SessionBuilt == view # "quiz" /\ view' = "quiz"

\* ... by startQuiz(activeType', reviewMistakes)
BuiltBy(reviewMistakes) ==
    \E r \in Shifts : startQuiz(activeType', reviewMistakes, r)

FreshSession(q) ==
    /\ q.isActive
    /\ q.currentIndex = 0 /\ q.score = 0 /\ q.mistakes = <<>>
    /\ Cardinality(Range(q.questions)) = Len(q.questions)

\* C8 as stated: the length is min(limit, size of the candidate pool), also
\* for a review-mode session.
C8_Original ==
    [][SessionBuilt =>
        \A reviewMistakes \in BOOLEAN :
            BuiltBy(reviewMistakes) =>
                LET size == Len(CandidatePool(activeType'))
                    limit == Limit(activeType')
                IN  /\ FreshSession(quiz')
                    /\ Range(quiz'.questions) \subseteq Range(CandidatePool(activeType'))
                    /\ Len(quiz'.questions) = (IF limit < size THEN limit ELSE size)
                    /\ reviewMistakes =>
                           Range(quiz'.questions) \subseteq DOMAIN progress.weakIds]_vars

\* C8 amended: a built session has currentIndex 0, score 0, no mistakes and
\* pairwise distinct questions taken from the candidate pool; in review mode
\* every question has an entry in weakIds; its length is min(limit, n), n
\* being the size of the candidate pool, or in review mode the number of its
\* items that have an entry in weakIds.
C8_SessionBuilt ==
    [][SessionBuilt =>
        \A reviewMistakes \in BOOLEAN :
            BuiltBy(reviewMistakes) =>
                LET size == IF reviewMistakes
                            THEN Cardinality(WeakCandidates(activeType'))
                            ELSE Len(CandidatePool(activeType'))
                    limit == Limit(activeType')
                IN  /\ FreshSession(quiz')
                    /\ Range(quiz'.questions) \subseteq Range(CandidatePool(activeType'))
                    /\ Len(quiz'.questions) = (IF limit < size THEN limit ELSE size)
                    /\ reviewMistakes =>
                           Range(quiz'.questions) \subseteq DOMAIN progress.weakIds]_vars

\* C8 witness: a general session of 20 questions out of more than 20
\* candidates, one of which has an entry in weakIds
C8_Witness ==
    /\ view = "quiz" /\ activeType = "general" /\ quiz.isActive
    /\ quiz.currentIndex = 0 /\ quiz.score = 0 /\ quiz.mistakes = <<>>
    /\ Len(quiz.questions) = 20
    /\ Len(CandidatePool("general")) > 20
    /\ WeakCandidates("general") # {}

\* C9: a review-mode request for a target none of whose discovered items has
\* an entry in weakIds raises the alert and changes neither quiz, view,
\* activeType, the hint nor the progress record.
C9_NoMistakesTracked ==
    [][view = "home" =>
        \A target \in Targets :
            (WeakCandidates(target) = {} /\ \E r \in Shifts : startQuiz(target, TRUE, r)) =>
                /\ alertMsg' # Null
                /\ quiz' = quiz
                /\ view' = view
                /\ activeType' = activeType
                /\ mnemonic' = mnemonic
                /\ progress' = progress]_vars

\* C9 witness: the alert is up although weakIds is not empty
C9_Witness ==
    /\ alertMsg # Null
    /\ view = "home"
    /\ DOMAIN progress.weakIds # {}

\* A step of nextQuestion (the button or the timeout) while a question is
\* presented
AdvanceStep ==
    /\ view = "quiz" /\ HasCurrentQuestion
    /\ NextQuestionClick \/ TimerFire

\* C10: advancing from a question that is not the last adds 1 to
\* currentIndex and changes neither questions, score nor mistakes; advancing
\* from the last question shows the review view; in the review view the
\* session is not changed by anything but a new session or an exit.
C10_Advance ==
    [][/\ AdvanceStep =>
            IF quiz.currentIndex < Len(quiz.questions) - 1
            THEN /\ quiz' = [quiz EXCEPT !.currentIndex = quiz.currentIndex + 1]
                 /\ view' = "quiz"
            ELSE /\ view' = "review"
                 /\ quiz' = quiz
       /\ (view = "review" /\ view' = "review") =>
            (quiz' = quiz /\ progress' = progress)]_vars

\* A hint request is in flight
HintPending == hints # <<>>

\* The session is the one of the step before, or one that was just reset
\* or built
ScoreKept ==
    \/ quiz'.score = quiz.score
    \/ quiz'.score = 0 /\ quiz'.currentIndex = 0 /\ quiz'.mistakes = <<>>

\* C11: while a hint request is pending the processing flag is set and it
\* is the only request in flight; no step taken meanwhile is an answer, none
\* changes the progress record, and the score changes only by leaving the
\* session; the exit to the home view stays possible.
C11_HintPending ==
    /\ [](HintPending => isProcessing /\ Len(hints) = 1 /\ ENABLED resetToHome)
    /\ [][HintPending =>
            /\ ~CorrectAnswerStep
            /\ ~IncorrectAnswerStep
            /\ progress' = progress
            /\ ScoreKept]_vars

\* C11 witness: the learner reads the proficiency overview while the hint
\* request of the abandoned question is still pending
C11_Witness ==
    /\ HintPending
    /\ view = "progress-overview"
    /\ isProcessing

\* C12: a hint response that arrives after the session it was requested in
\* was abandoned is discarded, so a hint displayed during a quiz is the hint
\* of the question being presented.
C12_StaleHintDiscarded ==
    (view = "quiz" /\ HasCurrentQuestion /\ mnemonic # Null)
        => mnemonic[1].character = currentQuestion

\* C13: a failed hint request is surfaced by category: an authentication
\* failure marks the credential invalid and sets its error message, any
\* other failure (a payload that does not parse included) sets the generic
\* error message.
C13_HintFailureSurfaced ==
    [][\A i \in 1..Len(hints) :
          /\ HintResolveWith(i, "authError") =>
                 /\ hasKey' = FALSE
                 /\ globalError' = Some("Please select a valid paid API key.")
          /\ \A outcome \in {"otherError", "invalidJson"} :
                 HintResolveWith(i, outcome) =>
                     globalError' = Some("Could not fetch mnemonic tip.")]_vars

\* C14: the progress record is written by answer evaluation only: a step
\* that is not an answer (a session start, successful or not, an advance, an
\* exit, a hint resolution of any outcome) leaves masteredIds, weakIds and
\* successCounts unchanged, and a hint resolution leaves the session and its
\* score unchanged too.
C14_ProgressWriter ==
    [][/\ (~CorrectAnswerStep /\ ~IncorrectAnswerStep) => progress' = progress
       /\ \A i \in 1..Len(hints), outcome \in ServiceOutcomes :
              HintResolveWith(i, outcome) =>
                  /\ progress' = progress
                  /\ quiz'.score = quiz.score]_vars

\* C14 witness: the request of a recorded mistake has resolved without a
\* hint and the mistake is still recorded
C14_Witness ==
    /\ view = "quiz" /\ HasCurrentQuestion
    /\ hints = <<>> /\ mnemonic = Null /\ ~isProcessing
    /\ Includes(quiz.mistakes, currentQuestion)
    /\ CountOf(progress.weakIds, currentQuestion) > 0

\* C15: a hint request that fails or returns nothing is not fatal: when it
\* resolves for the question being presented, the processing flag is
\* cleared and the learner can proceed to the next question (an advance is
\* on offer: the "Next Question" button or a scheduled advance).
C15_HintFailureNonFatal ==
    [][\A i \in 1..Len(hints), outcome \in ServiceOutcomes \ {"json"} :
          (/\ view = "quiz" /\ HasCurrentQuestion
           /\ hints[i] = currentQuestion
           /\ HintResolveWith(i, outcome)) =>
              /\ isProcessing' = FALSE
              /\ mnemonic' # Null \/ timers' # <<>>]_vars

\* The expected answer as the specification states it
Expected(c) ==
    IF TypeOf(c) \in {"kanji", "vocabulary"} THEN MeaningOf(c) ELSE RomajiOf(c)

QuestionPresented == view = "quiz" /\ HasCurrentQuestion

\* C16: whatever the mode of the session, the expected answer of the
\* question presented is the meaning of a kanji or vocabulary item and the
\* romaji of any other item; it is among the options, the card marks an
\* option as correct exactly when it equals the expected answer, and a
\* submitted option is judged correct exactly when it equals it.
C16_ExpectedAnswer ==
    /\ [](QuestionPresented =>
            \A r1 \in Shifts, r2 \in Shifts :
                LET o == options(currentQuestion, catalogs, r1, r2)
                IN  /\ \E k \in 1..Len(o) : o[k] = Expected(currentQuestion)
                    /\ \A k \in 1..Len(o) :
                           optionIsCorrect(currentQuestion, o[k])
                               <=> o[k] = Expected(currentQuestion))
    /\ [][QuestionPresented =>
            \A answer \in OptionTable[currentQuestion] :
                handleAnswer(answer) =>
                    /\ CorrectAnswerStep <=> answer = Expected(currentQuestion)
                    /\ IncorrectAnswerStep <=> answer # Expected(currentQuestion)]_vars

\* C16 witness: in a general session the romaji of a kana question was
\* judged correct
C16_Witness ==
    /\ QuestionPresented
    /\ activeType = "general"
    /\ quiz.score = 1
    /\ timers # <<>>
    /\ ~isMeaningQuestion(currentQuestion)
    /\ CountOf(progress.successCounts, currentQuestion) > 0

\* C17: status(id) is 'Completed' for a member of masteredIds, otherwise
\* 'In progress' if successCounts[id] > 0, otherwise 'Not started'.
C17_Status ==
    \A id \in AllIds :
        getStatus(id) =
            IF id \in MasteredSet(progress) THEN "Completed"
            ELSE IF id \in DOMAIN progress.successCounts /\ progress.successCounts[id] > 0
                 THEN "In progress"
            ELSE "Not started"

\* C17 witness: an item with recorded mistakes only is 'Not started', next
\* to a mastered item whose counter is below the threshold
C17_Witness ==
    \E id \in AllIds, other \in AllIds :
        /\ CountOf(progress.weakIds, id) > 0
        /\ CountOf(progress.successCounts, id) = 0
        /\ getStatus(id) = "Not started"
        /\ getStatus(other) = "Completed"
        /\ CountOf(progress.successCounts, other) < 3

\* The tier of a success count as the specification states it
Tier(n) ==
    IF n = 0 THEN "None"
    ELSE IF n <= 4 THEN "Beginner"
    ELSE IF n <= 7 THEN "Intermediate"
    ELSE "Advanced"

DistractorItems(c) ==
    (IF TypeOf(c) \in {"kanji", "vocabulary"}
     THEN Range(catalogs.kanji) \cup Range(catalogs.vocabulary)
     ELSE Range(catalogs.hiragana) \cup Range(catalogs.katakana)) \ {c}

\* C19: the option set of the question presented holds the expected answer
\* exactly once, no value twice and at most 3 distractors; each distractor
\* is the answer key of another item, a kanji or vocabulary meaning for a
\* meaning question and a hiragana or katakana romaji for a reading
\* question; exactly one option is judged correct.
C19_Options ==
    QuestionPresented =>
        \A r1 \in Shifts, r2 \in Shifts :
            LET c == currentQuestion
                o == options(c, catalogs, r1, r2)
            IN  /\ Cardinality({k \in 1..Len(o) : o[k] = Expected(c)}) = 1
                /\ Cardinality(Range(o)) = Len(o)
                /\ Len(o) <= 1 + 3
                /\ \A k \in 1..Len(o) :
                       o[k] # Expected(c) =>
                           \E d \in DistractorItems(c) : o[k] = Expected(d)
                /\ Cardinality({k \in 1..Len(o) : optionIsCorrect(c, o[k])}) = 1

\* C19 witness: a meaning question whose source pool yields fewer than 3
\* distractors
C19_Witness ==
    /\ QuestionPresented
    /\ TypeOf(currentQuestion) \in {"kanji", "vocabulary"}
    /\ DistractorItems(currentQuestion) # {}
    /\ Len(options(currentQuestion, catalogs, 0, 0)) < 1 + 3

\* The step puts item c on display as "just unlocked"
ReportStep(c) == unlockNotification' = Some(c) /\ unlockNotification # Some(c)

\* The last item of category cat's discovered pool after the step
Trailing(cat) == unlockedSets'[cat][Len(unlockedSets'[cat])]

\* C20: a pool that has become longer than the length last observed for its
\* category has its trailing item reported once the home view is shown, no
\* item is reported twice, and an item is reported only as the trailing
\* item of a pool that is longer than the length last observed (so nothing
\* is reported when the page starts with saved masteries).
C20_UnlockReported ==
    /\ [](view = "home" =>
            \A cat \in CategorySet :
                Len(unlockedSets[cat]) > INITIAL_INTRO_COUNT =>
                    unlockedSets[cat][Len(unlockedSets[cat])] \in reported)
    /\ [][\A c \in AllIds :
            ReportStep(c) =>
                /\ c \notin reported
                /\ \E cat \in CategorySet :
                       /\ Len(unlockedSets'[cat]) > prevDiscoveredCounts[cat]
                       /\ c = Trailing(cat)]_vars

\* A step of handleAnswer, with either outcome
AnswerStep == CorrectAnswerStep \/ IncorrectAnswerStep

\* The answers accepted so far in the session
AnswersGiven == quiz.score + Len(quiz.mistakes)

\* C21: a question accepts one answer per presentation: an answer is
\* accepted only for a question that has no answer yet (the answers given
\* so far are those of earlier questions, and the question is not in the
\* mistakes list), so the mistakes list never holds a question twice.
C21_OneAnswerPerPresentation ==
    /\ [](Cardinality(Range(quiz.mistakes)) = Len(quiz.mistakes))
    /\ [][AnswerStep =>
            /\ AnswersGiven <= quiz.currentIndex
            /\ ~Includes(quiz.mistakes, currentQuestion)]_vars

\* Answers are blocked and nothing is left to unblock them: no "Next
\* Question" button, no scheduled advance, no hint request in flight
Blocked ==
    /\ QuestionPresented
    /\ isProcessing
    /\ mnemonic = Null /\ timers = <<>> /\ hints = <<>>

\* C22: a session that has just been built shows its first question with
\* the processing flag idle, whatever the flag was when the session before
\* it was left; no session is ever blocked with no advance on offer.
C22_FlagIdleAtStart ==
    /\ [][SessionBuilt => ~isProcessing']_vars
    /\ []~Blocked

\* The question at currentIndex has been answered in this session
CurrentAnswered == AnswersGiven >= quiz.currentIndex + 1

\* C23: the delayed advance acts on the session of its answer only: while a
\* session is shown currentIndex is within 0..length-1; currentIndex grows
\* only by 1, in the quiz view, past a question that was answered in the
\* session shown; the review view is entered only from the last question of
\* the session shown, once it was answered.
C23_DelayedAdvanceOwnSession ==
    /\ [](view = "quiz" =>
            quiz.currentIndex >= 0 /\ quiz.currentIndex <= Len(quiz.questions) - 1)
    /\ [][/\ quiz'.currentIndex > quiz.currentIndex =>
                /\ view = "quiz"
                /\ quiz'.currentIndex = quiz.currentIndex + 1
                /\ CurrentAnswered
          /\ (view' = "review" /\ view # "review") =>
                /\ view = "quiz"
                /\ quiz.currentIndex = Len(quiz.questions) - 1
                /\ CurrentAnswered]_vars

\* The ids that have an entry in the progress record
Recorded(prog) ==
    MasteredSet(prog) \cup DOMAIN prog.weakIds \cup DOMAIN prog.successCounts

\* id is in the current discovered pool of its category
Discovered(id) ==
    \E k \in 1..Len(unlockedSets[TypeOf(id)]) : unlockedSets[TypeOf(id)][k] = id

\* C24: every id that appears in masteredIds, weakIds or successCounts is in
\* the current discovered pool of its category: nothing is recorded for an
\* item that is still locked, also when a pool grows during a session whose
\* question list was fixed before (every question of that list is in the
\* current pool of its category as well).
C24_RecordedIsDiscovered ==
    /\ \A id \in Recorded(progress) : Discovered(id)
    /\ \A k \in 1..Len(quiz.questions) : Discovered(quiz.questions[k])

\* C24 witness: the third correct answer in a row for a hiragana has just
\* been given: the pool has grown to 11 during the session, whose 10
\* questions were fixed before and do not hold the new item
C24_Witness ==
    /\ QuestionPresented /\ activeType = "hiragana"
    /\ timers # <<>> /\ quiz.score = 1
    /\ currentQuestion \in MasteredSet(progress)
    /\ CountOf(progress.successCounts, currentQuestion) = 3
    /\ DOMAIN progress.weakIds = {}
    /\ Len(unlockedSets.hiragana) = 11
    /\ ~Includes(quiz.questions, unlockedSets.hiragana[11])

\* C25: the score of the session is at least 0 and at most the number of
\* its questions, in every reachable state.
C25_ScoreBounded ==
    quiz.score >= 0 /\ quiz.score <= Len(quiz.questions)

\* C25 witness: the only question of a session was answered incorrectly,
\* then, the hint request having brought nothing, correctly: two answers
\* and a score equal to the number of questions
C25_Witness ==
    /\ QuestionPresented
    /\ Len(quiz.questions) = 1
    /\ quiz.score = 1
    /\ quiz.mistakes = <<currentQuestion>>
    /\ timers # <<>>

====
